---- MODULE Spec2Model ----
(***************************************************************************)
(* A model of the FQBN value type of src/src/index.ts: the constructor     *)
(* (parser and validator), serialize/toString, and the immutable update    *)
(* operations.  A JavaScript string is a sequence of one-character         *)
(* strings; an options object is the sequence of its own <<key, value>>    *)
(* properties in the order Object.entries enumerates them.                 *)
(***************************************************************************)
EXTENDS Integers, Sequences, FiniteSets

(***************************************************************************)
(* Characters and the regular expressions of the constructor               *)
(***************************************************************************)
Digits == {"0", "1", "2", "3", "4", "5", "6", "7", "8", "9"}

Letters ==
    {"a", "b", "c", "d", "e", "f", "g", "h", "i", "j", "k", "l", "m",
     "n", "o", "p", "q", "r", "s", "t", "u", "v", "w", "x", "y", "z",
     "A", "B", "C", "D", "E", "F", "G", "H", "I", "J", "K", "L", "M",
     "N", "O", "P", "Q", "R", "S", "T", "U", "V", "W", "X", "Y", "Z"}

\* the class [a-zA-Z0-9_.-]
NameChars == Letters \cup Digits \cup {"_", ".", "-"}

\* the class [a-zA-Z0-9=_.-]
ValueChars == NameChars \cup {"="}

AllIn(s, class) == \A i \in 1..Len(s) : s[i] \in class

\* a test that every segment passes
SegmentRegexAny(s) == TRUE

\* /^[a-zA-Z0-9_.-]*$/.test(s)
SegmentRegex(s) == AllIn(s, NameChars)

\* /^[a-zA-Z0-9_.-]+$/.test(s)
KeyRegex(s) == Len(s) > 0 /\ AllIn(s, NameChars)

\* /^[a-zA-Z0-9=_.-]*$/.test(s)
ValueRegex(s) == AllIn(s, ValueChars)

(***************************************************************************)
(* String.prototype.split and Array.prototype.join                         *)
(***************************************************************************)
\* the index of the first sep in s at or after position i, 0 when there is none
RECURSIVE IndexFrom(_, _, _)
IndexFrom(s, sep, i) ==
    IF i > Len(s) THEN 0
    ELSE IF s[i] = sep THEN i
    ELSE IndexFrom(s, sep, i + 1)

\* s.split(sep): every piece between separators; "".split(sep) is [""]
RECURSIVE Split(_, _)
Split(s, sep) ==
    LET i == IndexFrom(s, sep, 1) IN
    IF i = 0 THEN <<s>>
    ELSE <<SubSeq(s, 1, i - 1)>> \o Split(SubSeq(s, i + 1, Len(s)), sep)

\* s.split(sep, limit): the pieces of s.split(sep), cut to the first limit pieces
SplitLimit(s, sep, limit) ==
    LET all == Split(s, sep) IN
    IF Len(all) <= limit THEN all ELSE SubSeq(all, 1, limit)

\* parts.join(sep)
RECURSIVE Join(_, _)
Join(parts, sep) ==
    IF Len(parts) = 0 THEN <<>>
    ELSE IF Len(parts) = 1 THEN parts[1]
    ELSE parts[1] \o <<sep>> \o Join(Tail(parts), sep)

(***************************************************************************)
(* Plain JavaScript objects used as Record<string, string>                 *)
(***************************************************************************)
\* property names every object literal inherits from Object.prototype
InheritedNames ==
    { <<"c","o","n","s","t","r","u","c","t","o","r">>,
      <<"_","_","p","r","o","t","o","_","_">>,
      <<"t","o","S","t","r","i","n","g">>,
      <<"v","a","l","u","e","O","f">>,
      <<"h","a","s","O","w","n","P","r","o","p","e","r","t","y">> }

ProtoName == <<"_","_","p","r","o","t","o","_","_">>

\* the numeral of the largest array index, 2^32 - 2
MaxArrayIndexDigits == <<"4", "2", "9", "4", "9", "6", "7", "2", "9", "4">>

DigitValue(c) ==
    CASE c = "0" -> 0 [] c = "1" -> 1 [] c = "2" -> 2 [] c = "3" -> 3
      [] c = "4" -> 4 [] c = "5" -> 5 [] c = "6" -> 6 [] c = "7" -> 7
      [] c = "8" -> 8 [] c = "9" -> 9

\* a < b for two numerals of the same length
RECURSIVE DigitsLess(_, _, _)
DigitsLess(a, b, i) ==
    IF i > Len(a) THEN FALSE
    ELSE IF DigitValue(a[i]) < DigitValue(b[i]) THEN TRUE
    ELSE IF DigitValue(a[i]) > DigitValue(b[i]) THEN FALSE
    ELSE DigitsLess(a, b, i + 1)

\* a < b as numbers, for two numerals without leading zeros
NumeralLess(a, b) ==
    Len(a) < Len(b) \/ (Len(a) = Len(b) /\ DigitsLess(a, b, 1))

\* an integer-like key: the canonical decimal numeral of an array index
IsArrayIndex(k) ==
    /\ Len(k) > 0
    /\ AllIn(k, Digits)
    /\ (Len(k) > 1 => k[1] # "0")
    /\ ~NumeralLess(MaxArrayIndexDigits, k)

EmptyObject == <<>>

HasOwn(o, k) == \E i \in 1..Len(o) : o[i][1] = k

OwnIndex(o, k) == CHOOSE i \in 1..Len(o) : o[i][1] = k

\* the value of the expression o[k]
Undefined == [kind |-> "undefined", str |-> <<>>]
ObjGet(o, k) ==
    IF HasOwn(o, k) THEN [kind |-> "string", str |-> o[OwnIndex(o, k)][2]]
    ELSE IF k \in InheritedNames THEN [kind |-> "object", str |-> <<>>]
    ELSE Undefined

\* the truthiness of a value read from an object
Truthy(x) == x.kind = "object" \/ (x.kind = "string" /\ Len(x.str) > 0)

\* where a new integer-like key goes: before the first own key that is not
\* integer-like or is a larger integer
RECURSIVE IndexSlot(_, _, _)
IndexSlot(o, k, i) ==
    IF i > Len(o) THEN i
    ELSE IF ~IsArrayIndex(o[i][1]) THEN i
    ELSE IF NumeralLess(k, o[i][1]) THEN i
    ELSE IndexSlot(o, k, i + 1)

\* the object after the assignment o[k] = v, v a string
ObjSet(o, k, v) ==
    IF HasOwn(o, k) THEN [o EXCEPT ![OwnIndex(o, k)] = <<k, v>>]
    ELSE IF k = ProtoName THEN o
    ELSE IF IsArrayIndex(k)
         THEN LET p == IndexSlot(o, k, 1) IN
              SubSeq(o, 1, p - 1) \o <<<<k, v>>>> \o SubSeq(o, p, Len(o))
    ELSE Append(o, <<k, v>>)

\* Object.entries(o) and Object.keys(o)
ObjEntries(o) == o
ObjKeys(o) == [i \in 1..Len(o) |-> o[i][1]]

(***************************************************************************)
(* The FQBN instance, the errors, and the constructor                      *)
(***************************************************************************)
\* this.options when the constructor left it unassigned
NoOptions == [present |-> FALSE, entries |-> EmptyObject]

\* this.options referring to the object o
SomeOptions(o) == [present |-> TRUE, entries |-> o]

NoFQBN == [vendor |-> <<>>, arch |-> <<>>, boardId |-> <<>>, options |-> NoOptions]

\* class InvalidFQBNError and its subclass ConfigOptionError
ErrorKinds == {"InvalidFQBNError", "ConfigOptionError"}

\* err instanceof InvalidFQBNError
InstanceOfInvalidFQBNError(e) == e \in ErrorKinds

Created(f) == [error |-> "none", detail |-> "", fqbn |-> f]

Thrown(kind, detail) == [error |-> kind, detail |-> detail, fqbn |-> NoFQBN]

\* a split that reads a tuple without '=' as a key with an empty value
TupleSplitPadded(tuple) ==
    IF Len(SplitLimit(tuple, "=", 2)) = 1 THEN <<tuple, <<>>>>
    ELSE SplitLimit(tuple, "=", 2)

\* tuple.split('=', 2)
TupleSplit(tuple) == SplitLimit(tuple, "=", 2)

\* if (existingValue), the duplicate test of the constructor
DuplicateTest(existingValue) == Truthy(existingValue)

\* the loop over the tuples of the options block, from tuple i on, with the
\* options collected so far
RECURSIVE ParseTuples(_, _, _)
ParseTuples(tuples, i, options) ==
    IF i > Len(tuples) THEN [error |-> "none", detail |-> "", options |-> options]
    ELSE LET tuple == tuples[i]
             configSegments == TupleSplit(tuple)
         IN  IF Len(configSegments) # 2
             THEN [error |-> "ConfigOptionError", detail |-> "Invalid config option",
                   options |-> options]
             ELSE LET key == configSegments[1]
                      value == configSegments[2]
                  IN  IF ~KeyRegex(key)
                      THEN [error |-> "ConfigOptionError",
                            detail |-> "Invalid config option key",
                            options |-> options]
                      ELSE IF ~ValueRegex(value)
                      THEN [error |-> "ConfigOptionError",
                            detail |-> "Invalid config option value",
                            options |-> options]
                      ELSE IF DuplicateTest(ObjGet(options, key))
                      THEN [error |-> "ConfigOptionError",
                            detail |-> "Duplicate config options",
                            options |-> options]
                      ELSE ParseTuples(tuples, i + 1, ObjSet(options, key, value))

\* an assignment of this.options that does not look at the number of keys
AssignOptionsAlways(options) == SomeOptions(options)

\* if (Object.keys(options).length) this.options = options
AssignOptions(options) ==
    IF Len(ObjKeys(options)) # 0 THEN SomeOptions(options) ELSE NoOptions

\* the constructor after the split on ':'
ParseSegments(fqbnSegments) ==
    IF Len(fqbnSegments) < 3 \/ Len(fqbnSegments) > 4
    THEN Thrown("InvalidFQBNError", "")
    ELSE IF \E i \in 1..3 : ~SegmentRegex(fqbnSegments[i])
    THEN Thrown("InvalidFQBNError", "")
    ELSE LET vendor == fqbnSegments[1]
             arch == fqbnSegments[2]
             boardId == fqbnSegments[3]
         IN  IF Len(boardId) = 0
             THEN Thrown("InvalidFQBNError", "")
             ELSE LET parsed ==
                          IF Len(fqbnSegments) = 4
                          THEN ParseTuples(Split(fqbnSegments[4], ","), 1, EmptyObject)
                          ELSE [error |-> "none", detail |-> "", options |-> EmptyObject]
                  IN  IF parsed.error # "none"
                      THEN Thrown(parsed.error, parsed.detail)
                      ELSE Created([vendor |-> vendor, arch |-> arch,
                                    boardId |-> boardId,
                                    options |-> AssignOptions(parsed.options)])

\* an argument that is not a string: undefined
NotAString == <<"undefined">>

\* new FQBN(fqbn): the instance created, or the error thrown; fqbn.split is
\* a TypeError when fqbn is undefined
NewFQBN(fqbn) ==
    IF fqbn = NotAString THEN Thrown("TypeError", "")
    ELSE ParseSegments(Split(fqbn, ":"))

(***************************************************************************)
(* serialize and toString                                                  *)
(***************************************************************************)
\* a serialization that leaves the '=' out after a key with an empty value
EntryTextsBareKey(entries) ==
    [i \in 1..Len(entries) |->
        IF Len(entries[i][2]) = 0 THEN entries[i][1]
        ELSE entries[i][1] \o <<"=">> \o entries[i][2]]

\* `${key}=${value}` of every entry
EntryTexts(entries) ==
    [i \in 1..Len(entries) |-> entries[i][1] \o <<"=">> \o entries[i][2]]

\* a serialization that leaves the vendor out before the first ':'
serializeWithoutVendor(vendor, arch, boardId, options) ==
    LET configs == IF ~options.present THEN <<>>
                   ELSE Join(EntryTexts(ObjEntries(options.entries)), ",")
    IN  <<":">> \o arch \o <<":">> \o boardId
          \o (IF Len(configs) > 0 THEN <<":">> \o configs ELSE <<>>)

\* serialize(vendor, arch, boardId, options), options an object or undefined
serialize(vendor, arch, boardId, options) ==
    LET configs == IF ~options.present THEN <<>>
                   ELSE Join(EntryTexts(ObjEntries(options.entries)), ",")
    IN  vendor \o <<":">> \o arch \o <<":">> \o boardId
          \o (IF Len(configs) > 0 THEN <<":">> \o configs ELSE <<>>)

\* a toString that passes the options on whatever skipOptions is
toStringKeepsOptions(x, skipOptions) ==
    serialize(x.vendor, x.arch, x.boardId,
              IF x.options.present THEN x.options ELSE SomeOptions(EmptyObject))

\* x.toString(skipOptions); a missing this.options defaults to {}
toString(x, skipOptions) ==
    LET options == IF x.options.present THEN x.options ELSE SomeOptions(EmptyObject)
    IN  serialize(x.vendor, x.arch, x.boardId,
                  IF skipOptions THEN NoOptions ELSE options)

(***************************************************************************)
(* The instances alive in the program and the methods of FQBN.             *)
(*                                                                         *)
(* heap[i] is the i-th instance created and still referenced.  A method    *)
(* takes the heap and the index of its receiver and gives the heap after   *)
(* the call with what the call returned (ref, the index of the instance    *)
(* returned) or threw (error).                                             *)
(***************************************************************************)
Returns(h, ref) == [heap |-> h, error |-> "none", ref |-> ref]

Throws(h, kind) == [heap |-> h, error |-> kind, ref |-> 0]

\* new FQBN(fqbn) evaluated with the instances h alive
construct(h, fqbn) ==
    LET r == NewFQBN(fqbn) IN
    IF r.error # "none" THEN Throws(h, r.error)
    ELSE Returns(Append(h, r.fqbn), Len(h) + 1)

\* configOption.values taken whole, without the filter
SelectedValuesAll(values) == values

\* configOption.values.filter((value) => value.selected)
SelectedValues(values) ==
    LET IsSelected(value) == value.selected IN SelectSeq(values, IsSelected)

\* the first loop of withConfigOptions: the selected value of every
\* descriptor, collected into newOptions
RECURSIVE CollectNewOptions(_, _, _)
CollectNewOptions(configOptions, i, newOptions) ==
    IF i > Len(configOptions) THEN [error |-> "none", newOptions |-> newOptions]
    ELSE LET key == configOptions[i].option
             selected == SelectedValues(configOptions[i].values)
         IN  IF Len(selected) = 0
             THEN [error |-> "ConfigOptionError", newOptions |-> newOptions]
             ELSE IF Len(selected) > 1
             THEN [error |-> "ConfigOptionError", newOptions |-> newOptions]
             ELSE LET value == selected[1].value
                      existingValue == ObjGet(newOptions, key)
                  IN  IF Truthy(existingValue)
                      THEN [error |-> "ConfigOptionError", newOptions |-> newOptions]
                      ELSE CollectNewOptions(configOptions, i + 1,
                                             ObjSet(newOptions, key, value))

\* The memory the merge loop writes to: the instances, and the object bound
\* to the local variable options, which is the new object scratch when
\* target = 0 and the options object of instance target otherwise.
\* clone(this.options) makes a new object with the same entries.
\* cloneShared is the assignment options = this.options, without the copy.
cloneShared(h, this) ==
    [heap |-> h, target |-> this, scratch |-> EmptyObject]

clone(h, this) ==
    [heap |-> h, target |-> 0, scratch |-> h[this].options.entries]

\* this.options ? clone(this.options) : {}
WorkingOptions(h, this) ==
    IF h[this].options.present THEN clone(h, this)
    ELSE [heap |-> h, target |-> 0, scratch |-> EmptyObject]

MemGet(m) ==
    IF m.target = 0 THEN m.scratch ELSE m.heap[m.target].options.entries

MemPut(m, o) ==
    IF m.target = 0 THEN [m EXCEPT !.scratch = o]
    ELSE [m EXCEPT !.heap[m.target].options.entries = o]

\* a comparison that finds every new value different
StrictlyDiffersAlways(existingValue, newValue) == TRUE

\* existingValue !== newValue, newValue a string
StrictlyDiffers(existingValue, newValue) ==
    existingValue.kind # "string" \/ existingValue.str # newValue

\* the second loop of withConfigOptions: every entry of newOptions from
\* entry i on is written to options when it differs
RECURSIVE MergeLoop(_, _, _, _)
MergeLoop(m, entries, i, didUpdate) ==
    IF i > Len(entries) THEN [mem |-> m, didUpdate |-> didUpdate]
    ELSE LET key == entries[i][1]
             newValue == entries[i][2]
             existingValue == ObjGet(MemGet(m), key)
         IN  IF StrictlyDiffers(existingValue, newValue)
             THEN MergeLoop(MemPut(m, ObjSet(MemGet(m), key, newValue)),
                            entries, i + 1, TRUE)
             ELSE MergeLoop(m, entries, i + 1, didUpdate)

\* the end of withConfigOptions, after the merge loop
FinishMerge(this, merged) ==
    LET h2 == merged.mem.heap IN
    IF ~merged.didUpdate THEN Returns(h2, this)
    ELSE construct(h2, serialize(h2[this].vendor, h2[this].arch, h2[this].boardId,
                                 SomeOptions(MemGet(merged.mem))))

\* this.withConfigOptions(...configOptions)
withConfigOptions(h, this, configOptions) ==
    IF Len(configOptions) = 0 THEN Returns(h, this)
    ELSE LET collected == CollectNewOptions(configOptions, 1, EmptyObject) IN
         IF collected.error # "none" THEN Throws(h, collected.error)
         ELSE FinishMerge(this, MergeLoop(WorkingOptions(h, this),
                                          ObjEntries(collected.newOptions), 1, FALSE))

\* { option, values: [{ value, selected: true }] }
SelectedDescriptor(option, value) ==
    [option |-> option, values |-> <<[value |-> value, selected |-> TRUE]>>]

\* this.setConfigOption(option, value, strict)
setConfigOption(h, this, option, value, strict) ==
    LET options == IF h[this].options.present THEN h[this].options.entries
                   ELSE EmptyObject
    IN  IF strict /\ ~Truthy(ObjGet(options, option))
        THEN Throws(h, "ConfigOptionError")
        ELSE withConfigOptions(h, this, <<SelectedDescriptor(option, value)>>)

\* a test that finds options on every instance
hasConfigOptionsAlways(x) == TRUE

\* hasConfigOptions(fqbn)
hasConfigOptions(x) == x.options.present /\ Len(ObjKeys(x.options.entries)) # 0

\* a sanitize that builds the copy from this.toString(), options included
sanitizeWithOptions(h, this) ==
    IF ~hasConfigOptions(h[this]) THEN Returns(h, this)
    ELSE construct(h, toString(h[this], FALSE))

\* this.sanitize()
sanitize(h, this) ==
    IF ~hasConfigOptions(h[this]) THEN Returns(h, this)
    ELSE construct(h, toString(h[this], TRUE))

\* a comparison of two options fields that also compares the key order
deepEqualOrdered(a, b) == a = b

\* deepEqual(a, b, { strict: true }) of two options fields: both undefined,
\* or both objects with the same keys and the same value for every key
deepEqual(a, b) ==
    IF ~a.present \/ ~b.present THEN a.present = b.present
    ELSE /\ Len(a.entries) = Len(b.entries)
         /\ \A i \in 1..Len(a.entries) :
                /\ HasOwn(b.entries, a.entries[i][1])
                /\ b.entries[OwnIndex(b.entries, a.entries[i][1])][2] = a.entries[i][2]

\* this.equals(other), sameInstance telling whether this === other
equals(x, y, sameInstance) ==
    IF sameInstance THEN TRUE
    ELSE /\ x.vendor = y.vendor
         /\ x.arch = y.arch
         /\ x.boardId = y.boardId
         /\ deepEqual(x.options, y.options)

\* the descriptors withFQBN makes of Object.entries(other.options ?? {})
EntryDescriptors(entries) ==
    [i \in 1..Len(entries) |-> SelectedDescriptor(entries[i][1], entries[i][2])]

\* !this.equals(other), the comparison without the two sanitize calls
MismatchingWithOptions(made, this) ==
    ~equals(made.heap[this], made.heap[made.ref], this = made.ref)

\* !this.sanitize().equals(other.sanitize()), other the instance made.ref
Mismatching(made, this) ==
    LET thisBase == sanitize(made.heap, this)
        otherBase == sanitize(thisBase.heap, made.ref)
    IN  ~equals(otherBase.heap[thisBase.ref], otherBase.heap[otherBase.ref],
                thisBase.ref = otherBase.ref)

\* this.withFQBN(fqbn); other and the sanitized copies are temporaries
withFQBN(h, this, fqbn) ==
    LET made == construct(h, fqbn) IN
    IF made.error # "none" THEN Throws(h, made.error)
    ELSE IF Mismatching(made, this) THEN Throws(h, "ConfigOptionError")
    ELSE LET other == made.heap[made.ref] IN
         withConfigOptions(h, this,
             EntryDescriptors(ObjEntries(
                 IF other.options.present THEN other.options.entries
                 ELSE EmptyObject)))

\* a JavaScript number: an integer, or a number between value and value + 1
Number(isInteger, value) == [isInteger |-> isInteger, value |-> value]

\* the loop breaking one entry later, at index > maxOptions
RECURSIVE LimitLoopOneMore(_, _, _, _)
LimitLoopOneMore(optionEntries, index, maxOptions, limitedOptions) ==
    IF index > Len(optionEntries) THEN limitedOptions
    ELSE IF index - 1 > maxOptions THEN limitedOptions
    ELSE LimitLoopOneMore(optionEntries, index + 1, maxOptions,
                          ObjSet(limitedOptions, optionEntries[index][1],
                                 optionEntries[index][2]))

\* the loop of limitConfigOptions: the first maxOptions entries, copied
RECURSIVE LimitLoop(_, _, _, _)
LimitLoop(optionEntries, index, maxOptions, limitedOptions) ==
    IF index > Len(optionEntries) THEN limitedOptions
    ELSE IF index - 1 >= maxOptions THEN limitedOptions
    ELSE LimitLoop(optionEntries, index + 1, maxOptions,
                   ObjSet(limitedOptions, optionEntries[index][1],
                          optionEntries[index][2]))

\* limitConfigOptions without its early returns: it always builds a new
\* instance of the first maxOptions entries
limitConfigOptionsAlwaysCopies(h, this, maxOptions) ==
    IF ~maxOptions.isInteger \/ maxOptions.value < 0 THEN Throws(h, "RangeError")
    ELSE LET optionEntries ==
                 IF h[this].options.present THEN ObjEntries(h[this].options.entries)
                 ELSE <<>>
         IN  construct(h, serialize(h[this].vendor, h[this].arch, h[this].boardId,
                           SomeOptions(LimitLoop(optionEntries, 1, maxOptions.value,
                                                 EmptyObject))))

\* limitConfigOptions with the argument check after the return for a
\* receiver without options
limitConfigOptionsChecksLate(h, this, maxOptions) ==
    IF ~h[this].options.present THEN Returns(h, this)
    ELSE IF ~maxOptions.isInteger \/ maxOptions.value < 0 THEN Throws(h, "RangeError")
    ELSE IF maxOptions.value = 0 THEN sanitize(h, this)
    ELSE LET optionEntries == ObjEntries(h[this].options.entries) IN
         IF Len(optionEntries) <= maxOptions.value THEN Returns(h, this)
         ELSE construct(h, serialize(h[this].vendor, h[this].arch, h[this].boardId,
                           SomeOptions(LimitLoop(optionEntries, 1, maxOptions.value,
                                                 EmptyObject))))

\* this.limitConfigOptions(maxOptions)
limitConfigOptions(h, this, maxOptions) ==
    IF ~maxOptions.isInteger \/ maxOptions.value < 0 THEN Throws(h, "RangeError")
    ELSE IF ~h[this].options.present THEN Returns(h, this)
    ELSE IF maxOptions.value = 0 THEN sanitize(h, this)
    ELSE LET optionEntries == ObjEntries(h[this].options.entries) IN
         IF Len(optionEntries) <= maxOptions.value THEN Returns(h, this)
         ELSE construct(h, serialize(h[this].vendor, h[this].arch, h[this].boardId,
                           SomeOptions(LimitLoop(optionEntries, 1, maxOptions.value,
                                                 EmptyObject))))

\* a valid that gives undefined for every error
validCatchesAll(h, fqbn) ==
    LET made == construct(h, fqbn) IN
    IF made.error = "none" THEN made ELSE Returns(h, 0)

\* valid(fqbn): the instance, or undefined (ref 0) for an InvalidFQBNError
valid(h, fqbn) ==
    LET made == construct(h, fqbn) IN
    IF made.error = "none" THEN made
    ELSE IF InstanceOfInvalidFQBNError(made.error) THEN Returns(h, 0)
    ELSE made

(***************************************************************************)
(* The state: the instances alive, the pending raw string of a parse run,  *)
(* and the last call with its arguments and its outcome.                   *)
(***************************************************************************)
VARIABLES heap, input, last

vars == <<heap, input, last>>

\* how many instances the program keeps alive at once
MaxObjs == 2

\* how many tuples the options block of a parsed raw string has at most
MaxTuples == 2

\* no call is pending: the caller has read the outcome of the last one
Idle ==
    [op |-> "none", recv |-> 0, other |-> 0, raw |-> <<>>, descs |-> <<>>,
     key |-> <<>>, value |-> <<>>, flag |-> FALSE, n |-> Number(TRUE, 0),
     error |-> "none", ref |-> 0, str |-> <<>>, bool |-> FALSE]

\* the call op with outcome r (of Returns or Throws)
Outcome(op, this, r) ==
    [Idle EXCEPT !.op = op, !.recv = this, !.error = r.error, !.ref = r.ref]

(***************************************************************************)
(* Inputs                                                                  *)
(***************************************************************************)
RawOf(head, tuples) == Join(head \o <<Join(tuples, ",")>>, ":")

TupleOf(key, value) == key \o <<"=">> \o value

TupleLists(tuples, n) == UNION { [1..m -> tuples] : m \in 0..n }

\* raw strings of the parse runs: every options block of up to MaxTuples
\* tuples after a well-formed head, and short blocks after every other head
GoodHeads ==
    { <<<<"a">>, <<"b">>, <<"c">>>>, <<<<>>, <<"b">>, <<"c">>>>,
      <<<<"a">>, <<>>, <<"c">>>>, <<<<>>, <<>>, <<"c">>>> }

BadHeads ==
    { <<<<"a">>, <<"b">>, <<>>>>, <<<<"a", "$">>, <<"b">>, <<"c">>>>,
      <<<<"a">>, <<"$">>, <<"c">>>>, <<<<"a">>, <<"b">>, <<"c", "$">>>>,
      <<<<"a">>, <<"b">>>>, <<<<"a">>>>,
      <<<<"a">>, <<"b">>, <<"c">>, <<"k", "=", "v">>>> }

ParseKeys ==
    { <<>>, <<"k">>, <<"1">>, <<"2">>, <<"k", "$">>,
      <<"c","o","n","s","t","r","u","c","t","o","r">> }

ParseValues ==
    { <<>>, <<"v">>, <<"v", "=">>, <<"v", "=", "w">>, <<"v", "$">>,
      <<"v", "=", "$">> }

ParseTupleTexts ==
    ParseKeys \cup { TupleOf(k, v) : k \in ParseKeys, v \in ParseValues }

ParseRaws ==
    { Join(head, ":") : head \in GoodHeads \cup BadHeads }
      \cup { RawOf(<<<<"a">>, <<"b">>, <<"c">>>>, tuples) :
                 tuples \in TupleLists(ParseTupleTexts, MaxTuples) }
      \cup { RawOf(head, tuples) : head \in GoodHeads \cup BadHeads,
                 tuples \in TupleLists(ParseTupleTexts, 1) }

\* raw strings, option keys and values of the runs with several instances
HeapKeys == { <<"k">>, <<"1">> }

HeapValues == { <<>>, <<"v">> }

HeapTupleTexts ==
    { TupleOf(k, v) : k \in HeapKeys, v \in HeapValues }
      \cup { <<"k">>, <<"k", "=", "v", "=">> }

PlainTupleTexts == { TupleOf(k, v) : k \in HeapKeys, v \in HeapValues }

HeapHead == <<<<"a">>, <<"b">>, <<"c">>>>

\* the raw strings given to the constructor and to valid
HeapRaws ==
    { Join(HeapHead, ":") }
      \cup { RawOf(HeapHead, tuples) :
                 tuples \in TupleLists(HeapTupleTexts, 1)
                              \cup (PlainTupleTexts \X PlainTupleTexts) }
      \cup { <<"a", ":", "b">>, <<"a", ":", "b", ":">>,
             <<"a", ":", "$", ":", "c">>, NotAString }

\* the raw strings given to withFQBN: those, and some of another board,
\* another architecture and another vendor
MergeRaws ==
    HeapRaws \cup { <<"a", ":", "b", ":", "d">>,
                    <<"a", ":", "b", ":", "d", ":", "k", "=", "v">>,
                    <<"a", ":", "c", ":", "c", ":", "k", "=", "v">>,
                    <<":", "b", ":", "c", ":", "1", "=", "v">> }

\* candidate value lists of a descriptor: one selected, none, several, and
\* selected values that hold '=', ',' or ':'
Candidate(value, selected) == [value |-> value, selected |-> selected]

CandidateLists ==
    { <<Candidate(<<"v">>, TRUE)>>,
      <<Candidate(<<>>, TRUE)>>,
      <<Candidate(<<"v">>, FALSE), Candidate(<<>>, TRUE)>>,
      <<Candidate(<<"v">>, FALSE)>>,
      <<Candidate(<<"v">>, TRUE), Candidate(<<>>, TRUE)>>,
      <<Candidate(<<"v", "=">>, TRUE)>>,
      <<Candidate(<<"v", ",", "1", "=">>, TRUE)>>,
      <<Candidate(<<"v", ":">>, TRUE)>> }

Descriptors ==
    { [option |-> k, values |-> c] :
          k \in HeapKeys \cup {<<"k", ",">>}, c \in CandidateLists }

PlainDescriptors ==
    { SelectedDescriptor(k, v) : k \in HeapKeys, v \in HeapValues }

\* descriptors of key k with no selected value and with two selected values
UnselectableDescriptors ==
    { [option |-> <<"k">>, values |-> <<Candidate(<<"v">>, FALSE)>>],
      [option |-> <<"k">>,
       values |-> <<Candidate(<<"v">>, TRUE), Candidate(<<>>, TRUE)>>] }

DescriptorLists ==
    {<<>>} \cup { <<d>> : d \in Descriptors }
           \cup { <<d, e>> : d \in PlainDescriptors, e \in PlainDescriptors }
           \cup { <<d, e>> : d \in PlainDescriptors, e \in UnselectableDescriptors }
           \cup { <<d, e>> : d \in UnselectableDescriptors, e \in PlainDescriptors }

SetValues ==
    HeapValues \cup { <<"v", "=">>, <<"v", ",", "1", "=">>, <<"v", "$">> }

\* maxOptions: -1, 0, 1, 2 and 1.5
Limits == { Number(TRUE, n) : n \in -1..2 } \cup { Number(FALSE, 1) }

(***************************************************************************)
(* The parse runs: one raw string, constructed and printed back            *)
(***************************************************************************)
ParseInit ==
    /\ input \in ParseRaws
    /\ heap = <<>>
    /\ last = Idle

\* new FQBN(input)
ParseConstruct ==
    /\ last.op = "none"
    /\ heap = <<>>
    /\ \E r \in {construct(heap, input)} :
       /\ heap' = r.heap
       /\ last' = [Outcome("new", 0, r) EXCEPT !.raw = input]
    /\ UNCHANGED input

\* new FQBN(input).toString()
ParseToString ==
    /\ last.op = "new"
    /\ last.error = "none"
    /\ last' = [Idle EXCEPT !.op = "toString", !.recv = last.ref,
                            !.str = toString(heap[last.ref], FALSE)]
    /\ UNCHANGED <<heap, input>>

\* valid(input)
ParseValid ==
    /\ last.op = "none"
    /\ heap = <<>>
    /\ \E r \in {valid(heap, input)} :
       /\ heap' = r.heap
       /\ last' = [Outcome("valid", 0, r) EXCEPT !.raw = input]
    /\ UNCHANGED input

ParseNext == ParseConstruct \/ ParseValid \/ ParseToString

SpecParse == ParseInit /\ [][ParseNext]_vars

(***************************************************************************)
(* The runs with several instances: the program constructs instances,      *)
(* calls their methods, reads each outcome, and drops references.          *)
(***************************************************************************)
Init ==
    /\ heap = <<>>
    /\ input = <<>>
    /\ last = Idle

Receivers == 1..Len(heap)

\* a call can be made when the outcome of the last one has been read
Ready == last.op = "none"

\* the call is made when its result fits the heap
Call(r, outcome) ==
    /\ Len(r.heap) <= MaxObjs
    /\ heap' = r.heap
    /\ last' = outcome
    /\ UNCHANGED input

\* new FQBN(fqbn)
Construct ==
    /\ Ready
    /\ \E fqbn \in HeapRaws :
        \E r \in {construct(heap, fqbn)} :
        Call(r, [Outcome("new", 0, r) EXCEPT !.raw = fqbn])

\* valid(fqbn)
Valid ==
    /\ Ready
    /\ \E fqbn \in HeapRaws :
        \E r \in {valid(heap, fqbn)} :
        Call(r, [Outcome("valid", 0, r) EXCEPT !.raw = fqbn])

\* heap[this].withConfigOptions(...configOptions)
WithConfigOptions ==
    /\ Ready
    /\ \E this \in Receivers, configOptions \in DescriptorLists :
        \E r \in {withConfigOptions(heap, this, configOptions)} :
        Call(r, [Outcome("withConfigOptions", this, r)
                     EXCEPT !.descs = configOptions])

\* heap[this].setConfigOption(option, value, strict)
SetConfigOption ==
    /\ Ready
    /\ \E this \in Receivers, option \in HeapKeys, value \in SetValues,
       strict \in BOOLEAN :
        \E r \in {setConfigOption(heap, this, option, value, strict)} :
        Call(r, [Outcome("setConfigOption", this, r)
                     EXCEPT !.key = option, !.value = value, !.flag = strict])

\* heap[this].withFQBN(fqbn)
WithFQBN ==
    /\ Ready
    /\ \E this \in Receivers, fqbn \in MergeRaws :
        \E r \in {withFQBN(heap, this, fqbn)} :
        Call(r, [Outcome("withFQBN", this, r) EXCEPT !.raw = fqbn])

\* heap[this].sanitize()
Sanitize ==
    /\ Ready
    /\ \E this \in Receivers :
        \E r \in {sanitize(heap, this)} :
        Call(r, Outcome("sanitize", this, r))

\* heap[this].limitConfigOptions(maxOptions)
LimitConfigOptions ==
    /\ Ready
    /\ \E this \in Receivers, maxOptions \in Limits :
        \E r \in {limitConfigOptions(heap, this, maxOptions)} :
        Call(r, [Outcome("limitConfigOptions", this, r) EXCEPT !.n = maxOptions])

\* heap[this].toString(skipOptions)
ToString ==
    /\ Ready
    /\ \E this \in Receivers, skipOptions \in BOOLEAN :
        Call(Returns(heap, 0),
             [Idle EXCEPT !.op = "toString", !.recv = this, !.flag = skipOptions,
                          !.str = toString(heap[this], skipOptions)])

\* heap[this].equals(heap[other])
Equals ==
    /\ Ready
    /\ \E this \in Receivers, other \in Receivers :
        Call(Returns(heap, 0),
             [Idle EXCEPT !.op = "equals", !.recv = this, !.other = other,
                          !.bool = equals(heap[this], heap[other], this = other)])

\* the caller has read the outcome of the last call
Continue ==
    /\ last.op # "none"
    /\ last' = Idle
    /\ UNCHANGED <<heap, input>>

\* the program drops its reference to instance i
Release ==
    /\ last.op = "none"
    /\ \E i \in Receivers :
           heap' = SubSeq(heap, 1, i - 1) \o SubSeq(heap, i + 1, Len(heap))
    /\ UNCHANGED <<input, last>>

Next ==
    \/ Construct
    \/ Valid
    \/ WithConfigOptions
    \/ SetConfigOption
    \/ WithFQBN
    \/ Sanitize
    \/ LimitConfigOptions
    \/ ToString
    \/ Equals
    \/ Continue
    \/ Release

Spec == Init /\ [][Next]_vars

(***************************************************************************)
(* The comparison runs: two instances parsed from raw strings that list    *)
(* their options in every order, compared with equals                     *)
(***************************************************************************)
OrderKeys == { <<"k">>, <<"j">>, <<"1">> }

OrderTupleTexts == { TupleOf(k, v) : k \in OrderKeys, v \in HeapValues }

\* every options block of up to MaxTuples tuples on one board, and another
\* board, architecture and vendor with and without an option
OrderRaws ==
    { Join(HeapHead, ":") }
      \cup { RawOf(HeapHead, tuples) :
                 tuples \in TupleLists(OrderTupleTexts, MaxTuples) \ {<<>>} }
      \cup { <<"a", ":", "b", ":", "d">>,
             <<"a", ":", "b", ":", "d", ":", "k", "=", "v">>,
             <<"a", ":", "c", ":", "c">>,
             <<"a", ":", "c", ":", "c", ":", "k", "=", "v">>,
             <<":", "b", ":", "c">>,
             <<":", "b", ":", "c", ":", "k", "=", "v">> }

\* the instances the constructor makes of them
OrderInstances ==
    { NewFQBN(raw).fqbn : raw \in { r \in OrderRaws : NewFQBN(r).error = "none" } }

EqualsInit ==
    /\ heap \in { <<x, y>> : x \in OrderInstances, y \in OrderInstances }
    /\ input = <<>>
    /\ last = Idle

EqualsNext == Equals \/ Continue

SpecEquals == EqualsInit /\ [][EqualsNext]_vars

(***************************************************************************)
(* The grammar of a raw string, as the documentation of the class states   *)
(* it: VENDOR:ARCHITECTURE:BOARD_ID[:MENU_ID=OPTION_ID[,...]]              *)
(***************************************************************************)
FirstEquals(tuple) == IndexFrom(tuple, "=", 1)

\* the text of a tuple before its first '=' and the whole text after it
KeyText(tuple) == SubSeq(tuple, 1, FirstEquals(tuple) - 1)
ValueText(tuple) == SubSeq(tuple, FirstEquals(tuple) + 1, Len(tuple))

HeadWellFormed(segs) ==
    /\ Len(segs) \in {3, 4}
    /\ \A i \in 1..3 : AllIn(segs[i], NameChars)
    /\ Len(segs[3]) > 0

TupleWellFormed(tuple) ==
    /\ FirstEquals(tuple) > 0
    /\ Len(KeyText(tuple)) > 0
    /\ AllIn(KeyText(tuple), NameChars)
    /\ AllIn(ValueText(tuple), ValueChars)

\* two tuples of the block name the same key
SameKeyTwice(tuples) ==
    \E i, j \in 1..Len(tuples) :
        /\ i < j
        /\ FirstEquals(tuples[i]) > 0
        /\ FirstEquals(tuples[j]) > 0
        /\ KeyText(tuples[i]) = KeyText(tuples[j])

BlockWellFormed(tuples) ==
    /\ \A i \in 1..Len(tuples) : TupleWellFormed(tuples[i])
    /\ ~SameKeyTwice(tuples)

InputSegments == Split(input, ":")

\* the tuples of the 4th segment of the input, none when it has no 4th segment
InputTuples ==
    IF Len(InputSegments) >= 4 THEN Split(InputSegments[4], ",") ELSE <<>>

InputConforms ==
    /\ HeadWellFormed(InputSegments)
    /\ Len(InputSegments) = 4 => BlockWellFormed(InputTuples)

\* the pairs a conforming input lists
ListedPairs ==
    { <<KeyText(InputTuples[i]), ValueText(InputTuples[i])>> :
          i \in 1..Len(InputTuples) }

PairsOf(options) ==
    IF options.present
    THEN { options.entries[i] : i \in 1..Len(options.entries) }
    ELSE {}

(***************************************************************************)
(* Claims about the constructor, checked on the parse runs (SpecParse)     *)
(***************************************************************************)

\* C1: for every raw string s the constructor accepts, new FQBN(s).toString()
\* returns exactly s.
C1_RoundTripFromText ==
    last.op = "toString" => last.str = input

\* C2: in a tuple only the first '=' separates key from value: the stored
\* value of a key that one tuple names is the whole text after the first '='.
C2_ValueIsAllAfterFirstEquals ==
    (last.op = "new" /\ last.error = "none") =>
        \A i \in 1..Len(InputTuples) :
            (\A j \in 1..Len(InputTuples) :
                 j # i => KeyText(InputTuples[j]) # KeyText(InputTuples[i]))
            => ObjGet(heap[last.ref].options.entries, KeyText(InputTuples[i]))
                   = [kind |-> "string", str |-> ValueText(InputTuples[i])]

\* C3: a raw string with a well-formed head whose options block names the same
\* key in two tuples is rejected with a configuration error by the
\* constructor, and valid() returns undefined for it.
C3_DuplicateKeyRejected ==
    (HeadWellFormed(InputSegments) /\ SameKeyTwice(InputTuples)) =>
        /\ last.op = "new" => last.error = "ConfigOptionError"
        /\ last.op = "valid" => (last.ref = 0 /\ heap = <<>>)

\* C4: the constructor accepts every raw string that conforms to the grammar;
\* vendor, arch and boardId are the first three segments and options holds
\* exactly the listed pairs.
C4_ConformingAccepted ==
    (last.op = "new" /\ InputConforms) =>
        /\ last.error = "none"
        /\ heap[last.ref].vendor = InputSegments[1]
        /\ heap[last.ref].arch = InputSegments[2]
        /\ heap[last.ref].boardId = InputSegments[3]
        /\ PairsOf(heap[last.ref].options) = ListedPairs

\* C5: a structural defect raises the base error, also when the options block
\* is defective too; a defective options block after a well-formed head
\* raises the configuration error.
C5_ErrorClassification ==
    last.op = "new" =>
        /\ ~HeadWellFormed(InputSegments) => last.error = "InvalidFQBNError"
        /\ (HeadWellFormed(InputSegments) /\ Len(InputSegments) = 4
              /\ ~BlockWellFormed(InputTuples))
           => last.error = "ConfigOptionError"

\* a tuple of the 4th segment is empty or has no '='
HasTupleWithoutEquals ==
    \E i \in 1..Len(InputTuples) : FirstEquals(InputTuples[i]) = 0

\* C6 as claimed: any raw string whose 4th segment contains an empty tuple or
\* a tuple without '=' is rejected with a configuration error.
C6_TupleWithoutEqualsConfigError ==
    (last.op = "new" /\ HasTupleWithoutEquals) =>
        last.error = "ConfigOptionError"

\* C6 as amended: such a raw string is always rejected; with a configuration
\* error when its first three segments are well-formed and it has exactly
\* four segments, and with the base error otherwise.
C6_TupleWithoutEqualsRejected ==
    (last.op = "new" /\ HasTupleWithoutEquals) =>
        /\ last.error # "none"
        /\ heap = <<>>
        /\ HeadWellFormed(InputSegments) => last.error = "ConfigOptionError"
        /\ ~HeadWellFormed(InputSegments) => last.error = "InvalidFQBNError"

\* a trailing colon, a trailing comma, or a plain word was rejected with a
\* configuration error
C6_Witness ==
    /\ last.op = "new"
    /\ last.error = "ConfigOptionError"
    /\ input \in { <<"a", ":", "b", ":", "c", ":">>,
                   <<"a", ":", "b", ":", "c", ":", "k", "=", "v", ",">>,
                   <<"a", ":", "b", ":", "c", ":", "k">> }

(***************************************************************************)
(* Claims about instances and their methods, checked on the runs with      *)
(* several instances (Spec)                                                *)
(***************************************************************************)

\* C7: for every identifier x made by the constructor or by any sequence of
\* calls, new FQBN(x.toString()) succeeds and gives the same vendor, arch and
\* boardId and the same options with the same values in the same order.
C7_RoundTripFromValue ==
    \A i \in 1..Len(heap) :
        /\ NewFQBN(toString(heap[i], FALSE)).error = "none"
        /\ NewFQBN(toString(heap[i], FALSE)).fqbn = heap[i]

\* a merge returned a new instance with two options, one of them empty
C7_Witness ==
    /\ last.op = "withConfigOptions"
    /\ last.error = "none"
    /\ last.ref # last.recv
    /\ heap[last.ref].options.present
    /\ Len(heap[last.ref].options.entries) = 2
    /\ \E i \in 1..2 : heap[last.ref].options.entries[i][2] = <<>>

\* C8: options is absent or a mapping with at least one key; an empty
\* mapping is never observable.
C8_NoEmptyOptions ==
    \A i \in 1..Len(heap) :
        heap[i].options.present => Len(heap[i].options.entries) >= 1

\* sanitize returned a new instance without options for a receiver with options
C8_Witness ==
    /\ last.op = "sanitize"
    /\ last.error = "none"
    /\ last.ref # last.recv
    /\ heap[last.recv].options.present
    /\ ~heap[last.ref].options.present

\* C9: no call, whether it returns or throws, changes the vendor, arch,
\* boardId or options of the receiver or of any instance created earlier.
C9_Immutable ==
    [][last'.op # "none" =>
          \A i \in 1..Len(heap) : Len(heap') >= i /\ heap'[i] = heap[i]]_vars

\* a merge on a receiver with options returned a new instance whose options
\* differ from the receiver's, with another instance alive
C9_Witness ==
    /\ last.op \in {"withConfigOptions", "setConfigOption", "withFQBN"}
    /\ last.error = "none"
    /\ last.ref # last.recv
    /\ heap[last.recv].options.present
    /\ heap[last.ref].options # heap[last.recv].options

\* the keys and the selected values of the descriptors of the last call
DescKeys == [i \in 1..Len(last.descs) |-> last.descs[i].option]

DescValue(i) == SelectedValues(last.descs[i].values)[1].value

\* every descriptor has a key in [A-Za-z0-9_.-]+ and one selected value in
\* [A-Za-z0-9_.-]*, and no two descriptors have the same key
PlainDescs ==
    /\ \A i \in 1..Len(last.descs) :
           /\ KeyRegex(last.descs[i].option)
           /\ Len(SelectedValues(last.descs[i].values)) = 1
           /\ AllIn(DescValue(i), NameChars)
    /\ \A i, j \in 1..Len(last.descs) : i # j => DescKeys[i] # DescKeys[j]

RecvEntries ==
    IF heap[last.recv].options.present THEN heap[last.recv].options.entries
    ELSE EmptyObject

\* the descriptors' keys the receiver does not have, in descriptor order
AddedKeys ==
    LET IsNew(k) == ~HasOwn(RecvEntries, k) IN SelectSeq(DescKeys, IsNew)

\* the value the merge gives key k: the selected value of its descriptor,
\* the receiver's value when no descriptor names k
MergedValue(k) ==
    IF \E i \in 1..Len(last.descs) : DescKeys[i] = k
    THEN DescValue(CHOOSE i \in 1..Len(last.descs) : DescKeys[i] = k)
    ELSE RecvEntries[OwnIndex(RecvEntries, k)][2]

\* C10: when withConfigOptions returns an updated identifier, its keys are
\* the receiver's keys in their order, followed by the keys that were not
\* present before in the order their descriptors were supplied, each with
\* its merged value.  Stated for descriptors with plain keys and values.
C10_OrderPreservingMerge ==
    (/\ last.op = "withConfigOptions"
     /\ last.error = "none"
     /\ last.ref # last.recv
     /\ PlainDescs)
    => LET expectedKeys == ObjKeys(RecvEntries) \o AddedKeys IN
       heap[last.ref].options.entries
           = [i \in 1..Len(expectedKeys) |->
                  <<expectedKeys[i], MergedValue(expectedKeys[i])>>]

\* how many candidate values of a descriptor are marked selected
SelectedCount(values) ==
    Cardinality({ j \in 1..Len(values) : values[j].selected })

\* the one value of descriptor i of the last call that is marked selected
TheSelected(i) ==
    LET values == last.descs[i].values IN
    values[CHOOSE j \in 1..Len(values) : values[j].selected].value

\* every descriptor of the last call has one selected value, no two name the
\* same key, and each selected value is the receiver's value for its key
RestatesReceiver ==
    /\ \A i \in 1..Len(last.descs) :
           /\ SelectedCount(last.descs[i].values) = 1
           /\ HasOwn(RecvEntries, DescKeys[i])
           /\ RecvEntries[OwnIndex(RecvEntries, DescKeys[i])][2] = TheSelected(i)
    /\ \A i, j \in 1..Len(last.descs) : i # j => DescKeys[i] # DescKeys[j]

\* C11: withConfigOptions returns the receiver itself when it is called with
\* no descriptors, and when every descriptor is valid and its selected value
\* equals the receiver's current value for its key.
C11_NoOpReturnsReceiver ==
    (last.op = "withConfigOptions" /\ RestatesReceiver)
    => (last.error = "none" /\ last.ref = last.recv)

\* a call with two descriptors restating both options of the receiver
\* returned the receiver
C11_Witness ==
    /\ last.op = "withConfigOptions"
    /\ Len(last.descs) = 2
    /\ RestatesReceiver
    /\ last.ref = last.recv

\* C12: withConfigOptions throws a configuration error and returns no
\* identifier whenever some descriptor of the call has no candidate value or
\* more than one candidate value marked selected.
C12_SelectionRequired ==
    (/\ last.op = "withConfigOptions"
     /\ \E i \in 1..Len(last.descs) : SelectedCount(last.descs[i].values) # 1)
    => (last.error = "ConfigOptionError" /\ last.ref = 0)

\* a call on a receiver with options was rejected for its second descriptor,
\* which has no selected value, after a descriptor with one
C12_Witness ==
    /\ last.op = "withConfigOptions"
    /\ last.error = "ConfigOptionError"
    /\ heap[last.recv].options.present
    /\ Len(last.descs) = 2
    /\ SelectedCount(last.descs[1].values) = 1
    /\ SelectedCount(last.descs[2].values) = 0

\* C13: withConfigOptions throws a configuration error whenever two
\* descriptors of the call name the same key, whatever their selected values.
C13_DuplicateDescriptorRejected ==
    (/\ last.op = "withConfigOptions"
     /\ \E i, j \in 1..Len(last.descs) : i # j /\ DescKeys[i] = DescKeys[j])
    => last.error = "ConfigOptionError"

\* the options of the instance the last call returned
ResultEntries ==
    IF heap[last.ref].options.present THEN heap[last.ref].options.entries
    ELSE EmptyObject

\* the last call was setConfigOption with a key in [A-Za-z0-9_.-]+ and a
\* value in [A-Za-z0-9=_.-]*
SetWithinClass ==
    /\ last.op = "setConfigOption"
    /\ KeyRegex(last.key)
    /\ ValueRegex(last.value)

\* C14: in non-strict mode setConfigOption(k, v), k in [A-Za-z0-9_.-]+ and v
\* in [A-Za-z0-9=_.-]*, returns an identifier whose options map k to exactly
\* v while every other key of the receiver keeps its value.
C14_SetStoresValue ==
    (SetWithinClass /\ ~last.flag)
    => /\ last.error = "none"
       /\ HasOwn(ResultEntries, last.key)
       /\ ResultEntries[OwnIndex(ResultEntries, last.key)][2] = last.value
       /\ \A i \in 1..Len(RecvEntries) :
              RecvEntries[i][1] # last.key
              => /\ HasOwn(ResultEntries, RecvEntries[i][1])
                 /\ ResultEntries[OwnIndex(ResultEntries, RecvEntries[i][1])][2]
                        = RecvEntries[i][2]

\* the instances alive before the last call, which appended at most one
HeapBefore ==
    IF last.error = "none" /\ last.ref # last.recv
    THEN SubSeq(heap, 1, Len(heap) - 1)
    ELSE heap

\* C15: in strict mode setConfigOption(k, v, true) throws a configuration
\* error if and only if k is not a key of the receiver; with k present,
\* whatever its value, the call does what the non-strict call does; in
\* non-strict mode an absent key is inserted without error.
C15_StrictIffAbsent ==
    /\ (SetWithinClass /\ last.flag)
       => /\ last.error = "ConfigOptionError" <=> ~HasOwn(RecvEntries, last.key)
          /\ HasOwn(RecvEntries, last.key)
             => setConfigOption(HeapBefore, last.recv, last.key, last.value, FALSE)
                    = [heap |-> heap, error |-> last.error, ref |-> last.ref]
    /\ (SetWithinClass /\ ~last.flag /\ ~HasOwn(RecvEntries, last.key))
       => /\ last.error = "none"
          /\ HasOwn(ResultEntries, last.key)

\* the identifier the raw string of the last call parses to
ParsedRaw == NewFQBN(last.raw).fqbn

ParsedEntries ==
    IF ParsedRaw.options.present THEN ParsedRaw.options.entries ELSE EmptyObject

\* vendor, arch and boardId of x and y are the same
SameBoard(x, y) ==
    /\ x.vendor = y.vendor
    /\ x.arch = y.arch
    /\ x.boardId = y.boardId

\* C16: withFQBN(s), s a string that parses, throws a configuration error if
\* and only if the vendor, arch or boardId of the parsed s differs from the
\* receiver's, whatever the options of the two are; it throws nothing else.
C16_MismatchIffBoardDiffers ==
    (last.op = "withFQBN" /\ NewFQBN(last.raw).error = "none")
    => /\ last.error \in {"none", "ConfigOptionError"}
       /\ last.error = "ConfigOptionError"
              <=> ~SameBoard(heap[last.recv], ParsedRaw)

\* a receiver with options merged with a string of the same board that has
\* other options, without error
C16_Witness ==
    /\ last.op = "withFQBN"
    /\ last.error = "none"
    /\ NewFQBN(last.raw).error = "none"
    /\ heap[last.recv].options.present
    /\ ParsedRaw.options.present
    /\ ParsedRaw.options # heap[last.recv].options

\* the keys of the tuples of the raw string of the last call, in the order
\* the string lists them
RawKeys ==
    LET segs == Split(last.raw, ":")
        tuples == IF Len(segs) >= 4 THEN Split(segs[4], ",") ELSE <<>>
    IN  [i \in 1..Len(tuples) |-> KeyText(tuples[i])]

\* those of them the receiver does not have
RawOnlyKeys ==
    LET IsNew(k) == ~HasOwn(RecvEntries, k) IN SelectSeq(RawKeys, IsNew)

\* the value withFQBN gives key k: that of the parsed string when it has k,
\* the receiver's otherwise
FQBNMergedValue(k) ==
    IF HasOwn(ParsedEntries, k) THEN ParsedEntries[OwnIndex(ParsedEntries, k)][2]
    ELSE RecvEntries[OwnIndex(RecvEntries, k)][2]

\* C17: when withFQBN(s) succeeds the result has the receiver's keys in the
\* receiver's order, each with the value of s when s has the key and with
\* the receiver's value otherwise, followed by the keys only s has, in the
\* order s lists them.  Stated for strings that name no key twice.
C17_MergeKeepsKeysAndOrder ==
    (/\ last.op = "withFQBN"
     /\ last.error = "none"
     /\ \A i, j \in 1..Len(RawKeys) : i # j => RawKeys[i] # RawKeys[j])
    => LET expectedKeys == ObjKeys(RecvEntries) \o RawOnlyKeys IN
       ResultEntries
           = [i \in 1..Len(expectedKeys) |->
                  <<expectedKeys[i], FQBNMergedValue(expectedKeys[i])>>]

\* C18: sanitize() returns an identifier with the receiver's vendor, arch
\* and boardId and with options absent; a receiver that has no options is
\* returned itself.
C18_SanitizeDropsOptions ==
    last.op = "sanitize"
    => /\ last.error = "none"
       /\ SameBoard(heap[last.ref], heap[last.recv])
       /\ ~heap[last.ref].options.present
       /\ ~heap[last.recv].options.present => last.ref = last.recv

\* sanitize of a receiver with two options returned another instance
C18_Witness ==
    /\ last.op = "sanitize"
    /\ last.error = "none"
    /\ heap[last.recv].options.present
    /\ Len(heap[last.recv].options.entries) = 2
    /\ last.ref # last.recv

\* the last call was limitConfigOptions(n), n a non-negative integer
LimitWithinRange ==
    /\ last.op = "limitConfigOptions"
    /\ last.n.isInteger
    /\ last.n.value >= 0

\* min(n, count) for the last call
KeptCount ==
    IF last.n.value <= Len(RecvEntries) THEN last.n.value ELSE Len(RecvEntries)

\* C19: limitConfigOptions(n), n a non-negative integer, returns an
\* identifier of the receiver's board whose options are exactly the first
\* min(n, count) options of the receiver, in the receiver's order and with
\* the receiver's values; options are absent when that is none.
C19_LimitKeepsPrefix ==
    LimitWithinRange
    => /\ last.error = "none"
       /\ SameBoard(heap[last.ref], heap[last.recv])
       /\ heap[last.ref].options
              = IF KeptCount = 0 THEN NoOptions
                ELSE SomeOptions(SubSeq(RecvEntries, 1, KeptCount))

\* a receiver with two options was limited to one
C19_Witness ==
    /\ LimitWithinRange
    /\ last.error = "none"
    /\ Len(RecvEntries) = 2
    /\ last.n.value = 1
    /\ Len(ResultEntries) = 1

\* C20: limitConfigOptions(n) returns the receiver itself whenever the
\* receiver's option count is at most n, a receiver without options included.
C20_LimitNoOpReturnsReceiver ==
    (LimitWithinRange /\ Len(RecvEntries) <= last.n.value)
    => (last.error = "none" /\ last.ref = last.recv)

\* a receiver with options was returned by a limit at its option count, and
\* a receiver without options by limitConfigOptions(0)
C20_Witness ==
    /\ LimitWithinRange
    /\ last.ref = last.recv
    /\ \/ heap[last.recv].options.present /\ Len(RecvEntries) = last.n.value
       \/ ~heap[last.recv].options.present /\ last.n.value = 0

\* C21: limitConfigOptions(n) throws a range error, which is neither of the
\* two invalid-identifier errors, for every n that is negative or not an
\* integer, also when the receiver has no options.
C21_RangeErrorFirst ==
    (/\ last.op = "limitConfigOptions"
     /\ ~last.n.isInteger \/ last.n.value < 0)
    => /\ last.error = "RangeError"
       /\ ~InstanceOfInvalidFQBNError(last.error)
       /\ last.ref = 0

\* a receiver without options was given a number that is not an integer
C21_Witness ==
    /\ last.op = "limitConfigOptions"
    /\ ~last.n.isInteger
    /\ ~heap[last.recv].options.present
    /\ last.error = "RangeError"

\* C22: x.equals(y) is true if and only if x and y have the same vendor,
\* arch and boardId and the same set of option pairs, both absent or both
\* present; the order of the keys does not matter.
C22_EqualsIffSamePairs ==
    last.op = "equals"
    => (last.bool
          <=> /\ SameBoard(heap[last.recv], heap[last.other])
              /\ heap[last.recv].options.present = heap[last.other].options.present
              /\ PairsOf(heap[last.recv].options) = PairsOf(heap[last.other].options))

\* two instances with the same two options in different orders were found
\* equal
C22_Witness ==
    /\ last.op = "equals"
    /\ last.bool
    /\ last.recv # last.other
    /\ Len(heap[last.recv].options.entries) = 2
    /\ heap[last.recv].options.entries # heap[last.other].options.entries

BoardText(x) == Join(<<x.vendor, x.arch, x.boardId>>, ":")

\* 'vendor:arch:boardId:k1=v1,k2=v2,...' of x in the order of its options
FullText(x) ==
    RawOf(<<x.vendor, x.arch, x.boardId>>,
          [i \in 1..Len(x.options.entries) |->
               TupleOf(x.options.entries[i][1], x.options.entries[i][2])])

\* C24: toString() returns 'vendor:arch:boardId' when options are absent and
\* 'vendor:arch:boardId:k1=v1,k2=v2,...' in the current option order when
\* they are present; toString(true) returns the three-segment form, which
\* is what sanitize().toString() returns.
C24_ToStringFormat ==
    last.op = "toString"
    => LET x == heap[last.recv]
           sanitized == sanitize(heap, last.recv)
       IN  /\ (~last.flag /\ ~x.options.present) => last.str = BoardText(x)
           /\ (~last.flag /\ x.options.present) => last.str = FullText(x)
           /\ last.flag
              => /\ last.str = BoardText(x)
                 /\ sanitized.error = "none"
                 /\ last.str = toString(sanitized.heap[sanitized.ref], FALSE)

\* toString(true) of an instance with two options
C24_Witness ==
    /\ last.op = "toString"
    /\ last.flag
    /\ heap[last.recv].options.present
    /\ Len(heap[last.recv].options.entries) = 2
    /\ last.str = <<"a", ":", "b", ":", "c">>

\* the keys of the tuples of the input, left to right
ListedKeys == [i \in 1..Len(InputTuples) |-> KeyText(InputTuples[i])]

\* C25: the option order of a parsed identifier is the left-to-right order
\* of the tuples in the raw string, and toString lists the options in that
\* order, for every key in [A-Za-z0-9_.-]+, keys made of digits included.
\* Stated for raw strings that name no key twice.
C25_ParseKeepsTupleOrder ==
    /\ (/\ last.op = "new"
        /\ last.error = "none"
        /\ \A i, j \in 1..Len(ListedKeys) : i # j => ListedKeys[i] # ListedKeys[j])
       => ObjKeys(IF heap[last.ref].options.present
                  THEN heap[last.ref].options.entries ELSE EmptyObject)
              = ListedKeys
    /\ (/\ last.op = "toString"
        /\ heap[last.recv].options.present
        /\ \A i, j \in 1..Len(ListedKeys) : i # j => ListedKeys[i] # ListedKeys[j])
       => [i \in 1..Len(InputTuples) |->
               KeyText(Split(Split(last.str, ":")[4], ",")[i])] = ListedKeys

\* the last call was given an option key outside [A-Za-z0-9_.-]+ or a
\* selected value outside [A-Za-z0-9=_.-]*
InvalidPairGiven ==
    \/ /\ last.op = "setConfigOption"
       /\ ~KeyRegex(last.key) \/ ~ValueRegex(last.value)
    \/ /\ last.op = "withConfigOptions"
       /\ \E i \in 1..Len(last.descs) :
              \/ ~KeyRegex(last.descs[i].option)
              \/ /\ SelectedCount(last.descs[i].values) = 1
                 /\ ~ValueRegex(TheSelected(i))

\* C26: withConfigOptions and setConfigOption re-validate the merged result:
\* given an option key outside [A-Za-z0-9_.-]+ or a selected value outside
\* [A-Za-z0-9=_.-]*, the call fails with an invalid-identifier error and
\* returns no identifier.
C26_MergeRevalidates ==
    InvalidPairGiven
    => (InstanceOfInvalidFQBNError(last.error) /\ last.ref = 0)

\* x has a non-empty boardId, vendor, arch and boardId in [A-Za-z0-9_.-]*,
\* every option key in [A-Za-z0-9_.-]+ and every value in [A-Za-z0-9=_.-]*
WellFormed(x) ==
    /\ Len(x.boardId) > 0
    /\ AllIn(x.vendor, NameChars)
    /\ AllIn(x.arch, NameChars)
    /\ AllIn(x.boardId, NameChars)
    /\ \A i \in 1..Len(x.options.entries) :
           /\ Len(x.options.entries[i][1]) > 0
           /\ AllIn(x.options.entries[i][1], NameChars)
           /\ AllIn(x.options.entries[i][2], ValueChars)

\* C27: every identifier that exists after any sequence of calls is
\* well-formed, and a failed call yields no identifier.
C27_AlwaysWellFormed ==
    /\ \A i \in 1..Len(heap) : WellFormed(heap[i])
    /\ last.error # "none" => last.ref = 0

\* a merge that was given a value with ',' returned a new instance
C27_Witness ==
    /\ InvalidPairGiven
    /\ last.error = "none"
    /\ last.ref # last.recv

\* C28: sanitize and limitConfigOptions are idempotent: called again on the
\* instance it returned, with the same n, each returns that very instance.
C28_Idempotent ==
    /\ (last.op = "sanitize" /\ last.error = "none")
       => sanitize(heap, last.ref) = Returns(heap, last.ref)
    /\ (LimitWithinRange /\ last.error = "none")
       => limitConfigOptions(heap, last.ref, last.n) = Returns(heap, last.ref)

\* a receiver with two options was limited to one, in a new instance
C28_Witness ==
    /\ LimitWithinRange
    /\ last.error = "none"
    /\ last.n.value = 1
    /\ Len(RecvEntries) = 2
    /\ last.ref # last.recv

\* the last call was a merge that returned an identifier
MergeReturned ==
    /\ last.op \in {"withConfigOptions", "setConfigOption", "withFQBN"}
    /\ last.error = "none"

\* C29: whenever withConfigOptions, setConfigOption or withFQBN returns an
\* identifier r for receiver x, r is the same instance as x if and only if
\* r.equals(x).
C29_NewInstanceMeansChange ==
    MergeReturned
    => (last.ref = last.recv
          <=> equals(heap[last.ref], heap[last.recv], last.ref = last.recv))

\* C30: every identifier returned by withConfigOptions, setConfigOption,
\* withFQBN, sanitize or limitConfigOptions has the vendor, arch and boardId
\* of its receiver.
C30_BoardIsStable ==
    (/\ last.op \in {"withConfigOptions", "setConfigOption", "withFQBN",
                      "sanitize", "limitConfigOptions"}
     /\ last.error = "none")
    => SameBoard(heap[last.ref], heap[last.recv])

\* a receiver with options was merged with a string that has other options
\* into a new instance
C30_Witness ==
    /\ last.op = "withFQBN"
    /\ last.error = "none"
    /\ last.ref # last.recv
    /\ heap[last.recv].options.present
    /\ Len(ResultEntries) = 2

====
